---- MODULE Spec2Model ----
(***************************************************************************)
(* Model of the two scripts of repo-stats:                                 *)
(*   scripts/bioconda_basic.py   (Pipeline A: get_download_stats,          *)
(*                                read_package_list, fetch_package_stats,  *)
(*                                main)                                    *)
(*   scripts/bioconda_compare.py (Pipeline B: get_conda_stats)             *)
(*                                                                         *)
(* Python values are encoded uniformly as records [t, s, i, a]:            *)
(*   t = "int" | "str" | "null", s = the string (or its f-string           *)
(*   template), i = the integer (or the integer formatted into the         *)
(*   template), a = a sequence of characters/tokens (free text formatted   *)
(*   into the template, or the text itself for package names/summaries).   *)
(***************************************************************************)
EXTENDS Integers, Sequences, FiniteSets, TLC

VARIABLES
    pc,               \* position of the running function
    \* ---- get_download_stats
    now,              \* datetime.now(), as [year, month, day]
    package_name,     \* argument package_name / pkg_name
    file_urls,        \* list of partition addresses
    idx,              \* number of file_urls already iterated
    total_downloads,
    months_found,
    attempted,        \* sequence of the urls handed to pd.read_parquet
    s3_sum,           \* what the dataset held: sum of counts of matching rows read
    s3_contrib,       \* what the dataset held: partitions with matching rows
    some_readable,    \* what the dataset held: a partition was readable
    some_unreadable,  \* what the dataset held: a partition was unreadable
    download_info,    \* value returned by get_download_stats
    \* ---- fetch_package_stats
    response,         \* outcome of requests.get
    data,             \* parsed body of the response
    result,           \* returned record
    scan_calls,       \* number of calls of get_download_stats
    \* ---- read_package_list / main
    input_file,       \* the input file: "missing", "unreadable" or its lines
    packages,
    i,
    stats,
    successful,
    events,           \* trace of fetches, sleeps and file writes
    csv,              \* rows of the output file, one entry per to_csv call
    exit_code,
    status_counts,
    \* ---- get_conda_stats
    proc,             \* outcome of subprocess.run
    conda_ret,        \* returned value
    stderr            \* lines written to sys.stderr

scanVars  == <<now, file_urls, idx, total_downloads, months_found, attempted,
               s3_sum, s3_contrib, some_readable, some_unreadable,
               download_info>>
fetchVars == <<response, data, result, scan_calls>>
mainVars  == <<input_file, packages, i, stats, successful, events, csv,
               exit_code, status_counts>>
condaVars == <<proc, conda_ret, stderr>>
vars == <<pc, package_name, scanVars, fetchVars, mainVars, condaVars>>

(***************************************************************************)
(* Bounds                                                                  *)
(***************************************************************************)
FirstYear == 2023
YearSpan  == 3        \* current dates range over FirstYear .. FirstYear+YearSpan-1

(***************************************************************************)
(* Python values                                                           *)
(***************************************************************************)
IntV(n)       == [t |-> "int",  s |-> "",  i |-> n, a |-> <<>>]
StrV(x)       == [t |-> "str",  s |-> x,   i |-> 0, a |-> <<>>]
TextV(cs)     == [t |-> "str",  s |-> "",  i |-> 0, a |-> cs]
FmtI(tpl, n)  == [t |-> "str",  s |-> tpl, i |-> n, a |-> <<>>]
FmtS(tpl, cs) == [t |-> "str",  s |-> tpl, i |-> 0, a |-> cs]
NullV         == [t |-> "null", s |-> "",  i |-> 0, a |-> <<>>]

NA == StrV("N/A")

(***************************************************************************)
(* datetime arithmetic used by get_download_stats                          *)
(***************************************************************************)
IsLeap(y) == (y % 4 = 0) /\ ((y % 100 # 0) \/ (y % 400 = 0))

DaysInMonth(y, m) ==
    IF m = 2 THEN (IF IsLeap(y) THEN 29 ELSE 28)
    ELSE IF m \in {4, 6, 9, 11} THEN 30 ELSE 31

Date(y, m, d) == [year |-> y, month |-> m, day |-> d]

Dates == { dt \in [year : FirstYear .. (FirstYear + YearSpan - 1),
                   month : 1..12, day : 1..31] :
             dt.day <= DaysInMonth(dt.year, dt.month) }

\* the last day of the month before the month of dt
EndOfPrevMonth(dt) ==
    IF dt.month > 1
    THEN Date(dt.year, dt.month - 1, DaysInMonth(dt.year, dt.month - 1))
    ELSE Date(dt.year - 1, 12, 31)

\* dt - timedelta(days=n), a month at a time
RECURSIVE MinusDays(_, _)
MinusDays(dt, n) ==
    IF n < dt.day THEN [dt EXCEPT !.day = dt.day - n]
    ELSE MinusDays(EndOfPrevMonth(dt), n - dt.day)

DaysBack == 365

\* datetime comparison a <= b; the time of day of current and end_date is the
\* same (replace(day=1) and the timedelta keep it), so the date decides
DateLeq(a, b) ==
    \/ a.year < b.year
    \/ a.year = b.year /\ a.month < b.month
    \/ a.year = b.year /\ a.month = b.month /\ a.day <= b.day

\* current.strftime("%m"): two decimal digits
Strftime_m(dt) == <<dt.month \div 10, dt.month % 10>>

\* f"s3://anaconda-package-data/conda/monthly/{year}/{year}-{month}.parquet"
FileUrl(dt) == [dir |-> dt.year, year |-> dt.year, month |-> Strftime_m(dt)]

\* "Move to next month"
NextMonth(current) ==
    IF current.month = 12
    THEN [current EXCEPT !.year = current.year + 1, !.month = 1]
    ELSE [current EXCEPT !.month = current.month + 1]

\* the while loop of get_download_stats
RECURSIVE WhileCurrent(_, _, _)
WhileCurrent(current, end_date, urls) ==
    IF DateLeq(current, end_date)
    THEN WhileCurrent(NextMonth(current), end_date, Append(urls, FileUrl(current)))
    ELSE urls

GenerateFileUrls(end_date) ==
    LET start_date == MinusDays(end_date, DaysBack)
        current    == [start_date EXCEPT !.day = 1]
    IN  WhileCurrent(current, end_date, <<>>)

(***************************************************************************)
(* Idle values of the state a specification does not use                   *)
(***************************************************************************)
IdleScan ==
    /\ now = Date(FirstYear, 1, 1)
    /\ file_urls = <<>>
    /\ idx = 0
    /\ total_downloads = 0
    /\ months_found = 0
    /\ attempted = <<>>
    /\ s3_sum = 0
    /\ s3_contrib = 0
    /\ some_readable = FALSE
    /\ some_unreadable = FALSE
    /\ download_info = NullV

IdleFetch ==
    /\ response = "none"
    /\ data = "none"
    /\ result = "none"
    /\ scan_calls = 0

IdleMain ==
    /\ input_file = [kind |-> "missing", lines |-> <<>>]
    /\ packages = <<>>
    /\ i = 0
    /\ stats = <<>>
    /\ successful = 0
    /\ events = <<>>
    /\ csv = <<>>
    /\ exit_code = 0
    /\ status_counts = <<>>

IdleConda ==
    /\ proc = "none"
    /\ conda_ret = 0
    /\ stderr = <<>>

(***************************************************************************)
(* SpecMonths: the partition enumeration of get_download_stats, for every  *)
(* current date                                                            *)
(***************************************************************************)
InitMonths ==
    /\ pc = "enumerate"
    /\ package_name = <<"a">>
    /\ now \in Dates
    /\ file_urls = <<>>
    /\ idx = 0
    /\ total_downloads = 0
    /\ months_found = 0
    /\ attempted = <<>>
    /\ s3_sum = 0
    /\ s3_contrib = 0
    /\ some_readable = FALSE
    /\ some_unreadable = FALSE
    /\ download_info = NullV
    /\ IdleFetch /\ IdleMain /\ IdleConda

EnumerateMonths ==
    /\ pc = "enumerate"
    /\ file_urls' = GenerateFileUrls(now)
    /\ pc' = "enumerated"
    /\ UNCHANGED <<package_name, now, idx, total_downloads, months_found,
                   attempted, s3_sum, s3_contrib, some_readable, some_unreadable,
                   download_info,
                   fetchVars, mainVars, condaVars>>

NextMonths == EnumerateMonths

SpecMonths == InitMonths /\ [][NextMonths]_vars

\* the 12 calendar months ending at the month of dt, oldest first
MonthIndex(dt) == dt.year * 12 + (dt.month - 1)
MonthOfIndex(n) == Date(n \div 12, (n % 12) + 1, 1)
TwelveMonthsEnding(dt) ==
    [k \in 1..12 |-> FileUrl(MonthOfIndex(MonthIndex(dt) - 12 + k))]

\* C5: for every current date the enumeration is exactly the 12 calendar
\* months ending at the current month, once each, in chronological order,
\* one address per month from its year and zero-padded month.
C5_TwelveMonths ==
    pc = "enumerated" => file_urls = TwelveMonthsEnding(now)

\* what the code does: the enumeration ends at the current month, is
\* contiguous, and has 12 or 13 entries
C5_Observed ==
    pc = "enumerated" =>
        /\ Len(file_urls) \in {12, 13}
        /\ \A k \in 1..12 :
              file_urls[Len(file_urls) - 12 + k] = TwelveMonthsEnding(now)[k]

(***************************************************************************)
(* SpecScan: get_download_stats reading the monthly partitions             *)
(***************************************************************************)
MaxRows  == 2         \* rows of one partition
MaxCount == 1         \* largest value of the counts column

PkgNames == {<<"a">>, <<"b">>}

ScanDates == {Date(2024, 12, 31), Date(2026, 11, 4)}

Rows == [pkg_name : PkgNames, counts : 0..MaxCount]

\* the data frames pd.read_parquet can return
DataFrames == UNION {[1..n -> Rows] : n \in 0..MaxRows}

\* df[df['pkg_name'] == package_name]
RECURSIVE FilterPkg(_, _)
FilterPkg(df, name) ==
    IF df = <<>> THEN <<>>
    ELSE IF Head(df).pkg_name = name
         THEN <<Head(df)>> \o FilterPkg(Tail(df), name)
         ELSE FilterPkg(Tail(df), name)

\* pkg_data['counts'].sum()
RECURSIVE SumCounts(_)
SumCounts(df) == IF df = <<>> THEN 0 ELSE Head(df).counts + SumCounts(Tail(df))

\* the return statements of get_download_stats
ReturnTotal(total, found) ==
    [downloads |-> IntV(total), data_source |-> "conda_s3",
     note |-> FmtI("Last year total from {months_found} monthly files", found)]
ReturnNoData ==
    [downloads |-> IntV(0), data_source |-> "conda_s3",
     note |-> StrV("No download data found in last year")]
ReturnScanError(e) ==
    [downloads |-> NA, data_source |-> "error",
     note |-> FmtS("Error accessing S3 data: {str(e)}", e)]

ScanResult(total, found) ==
    IF total > 0 THEN ReturnTotal(total, found) ELSE ReturnNoData

InitScan ==
    /\ pc = "scan_start"
    /\ package_name = <<"a">>
    /\ now \in ScanDates
    /\ file_urls = <<>>
    /\ idx = 0
    /\ total_downloads = 0
    /\ months_found = 0
    /\ attempted = <<>>
    /\ s3_sum = 0
    /\ s3_contrib = 0
    /\ some_readable = FALSE
    /\ some_unreadable = FALSE
    /\ download_info = NullV
    /\ IdleFetch /\ IdleMain /\ IdleConda

\* lines 20-42: build file_urls, reset the accumulators
ScanStart ==
    /\ pc = "scan_start"
    /\ file_urls' = GenerateFileUrls(now)
    /\ total_downloads' = 0
    /\ months_found' = 0
    /\ pc' = "scan_loop"
    /\ UNCHANGED <<package_name, now, idx, attempted, s3_sum, s3_contrib,
                   some_readable, some_unreadable,
                   download_info, fetchVars, mainVars, condaVars>>

\* a variant that assigns the month's sum instead of adding it
AccumulateOverwrite(df, name, total, found) ==
    LET pkg_data == FilterPkg(df, name)
    IN  IF pkg_data # <<>>
        THEN [total |-> SumCounts(pkg_data), found |-> found + 1]
        ELSE [total |-> total, found |-> found]

\* the accumulation of one loop iteration whose partition was read as df
Accumulate(df, name, total, found) ==
    LET pkg_data == FilterPkg(df, name)
    IN  IF pkg_data # <<>>
        THEN [total |-> total + SumCounts(pkg_data), found |-> found + 1]
        ELSE [total |-> total, found |-> found]

\* one iteration of the for loop, the partition is readable
ReadPartition ==
    /\ pc = "scan_loop"
    /\ idx < Len(file_urls)
    /\ \E df \in DataFrames :
         LET acc == Accumulate(df, package_name, total_downloads, months_found)
             matching == {k \in 1..Len(df) : df[k].pkg_name = package_name}
         IN  /\ total_downloads' = acc.total
             /\ months_found' = acc.found
             /\ s3_sum' = s3_sum + SumCounts([k \in 1..Len(df) |->
                              IF k \in matching THEN df[k]
                              ELSE [df[k] EXCEPT !.counts = 0]])
             /\ s3_contrib' = s3_contrib + (IF matching # {} THEN 1 ELSE 0)
    /\ some_readable' = TRUE
    /\ attempted' = Append(attempted, file_urls[idx + 1])
    /\ idx' = idx + 1
    /\ UNCHANGED <<pc, package_name, now, file_urls, some_unreadable,
                   download_info, fetchVars, mainVars, condaVars>>

\* the state of the accumulators after an iteration whose read raised
ReadFailed(total, found, position) ==
    [total |-> total, found |-> found, idx |-> position + 1]

\* one iteration of the for loop, the partition is unreadable: except, continue
SkipPartition ==
    /\ pc = "scan_loop"
    /\ idx < Len(file_urls)
    /\ LET after == ReadFailed(total_downloads, months_found, idx)
       IN  /\ total_downloads' = after.total
           /\ months_found' = after.found
           /\ idx' = after.idx
    /\ attempted' = Append(attempted, file_urls[idx + 1])
    /\ some_unreadable' = TRUE
    /\ UNCHANGED <<pc, package_name, now, file_urls, s3_sum, s3_contrib,
                   some_readable, download_info, fetchVars, mainVars, condaVars>>

\* lines 64-75
ScanReturn ==
    /\ pc = "scan_loop"
    /\ idx >= Len(file_urls)
    /\ download_info' = ScanResult(total_downloads, months_found)
    /\ pc' = "scan_done"
    /\ UNCHANGED <<package_name, now, file_urls, idx, total_downloads,
                   months_found, attempted, s3_sum, s3_contrib, some_readable,
                   some_unreadable,
                   fetchVars, mainVars, condaVars>>

NextScan == ScanStart \/ ReadPartition \/ SkipPartition \/ ScanReturn

SpecScan == InitScan /\ [][NextScan]_vars

\* C6: whatever partitions are readable, every enumerated partition is
\* attempted exactly once (in order), the scan is not aborted, and the
\* returned total is the sum of counts over the matching rows of the
\* readable partitions, tagged with the bulk-dataset source; with no
\* readable partition the total is 0 and the tag is still the bulk-dataset
\* source, never the error tag nor the "N/A" sentinel.
C6_ScanTotal ==
    pc = "scan_done" =>
        /\ attempted = file_urls
        /\ download_info.downloads = IntV(s3_sum)
        /\ download_info.data_source = "conda_s3"
        /\ (~some_readable => download_info.downloads = IntV(0))

\* a finished scan that skipped some partitions and summed others
C6_Witness ==
    /\ pc = "scan_done"
    /\ some_readable
    /\ some_unreadable
    /\ s3_sum >= 2
    /\ s3_contrib >= 2

\* a finished scan with no readable partition
C6_WitnessNoneReadable ==
    /\ pc = "scan_done"
    /\ ~some_readable
    /\ some_unreadable
    /\ Len(attempted) >= 12

\* C7: the note tells how many partitions contributed matching rows
\* whenever at least one did (also when their counts sum to 0), and says
\* that no data was found only when none did.
C7_NoteCountsContributors ==
    pc = "scan_done" =>
        IF s3_contrib > 0
        THEN download_info.note =
               FmtI("Last year total from {months_found} monthly files", s3_contrib)
        ELSE download_info.note = StrV("No download data found in last year")

(***************************************************************************)
(* SpecFetch: fetch_package_stats                                          *)
(***************************************************************************)
MaxAnomalies == 2     \* body fields that are absent or null in one response
MaxScanTotal == 2     \* largest total / months_found of a scan result

ListV(n) == [t |-> "list", s |-> "", i |-> n, a |-> <<>>]

\* the keys of the response body read by fetch_package_stats
BodyKeys == {"releases", "files", "latest_version", "summary", "license",
             "home", "dev_url", "doc_url", "created_at", "modified_at"}

\* the value of a key that is present and not null
PresentValue(key) ==
    CASE key = "releases" -> ListV(2)
      [] key = "files"    -> ListV(3)
      [] key = "summary"  -> TextV(<<"a", ",", "b", ",">>)
      [] OTHER            -> StrV(key)

\* response bodies: not JSON, a JSON value that is not an object, or an
\* object whose keys are each absent, null or present
ObjectBodies ==
    { [kind |-> "object", fields |-> f] :
        f \in { g \in [BodyKeys -> {"absent", "null", "value"}] :
                  Cardinality({k \in BodyKeys : g[k] # "value"}) <= MaxAnomalies } }
NoFields == [k \in BodyKeys |-> "absent"]
Bodies == ObjectBodies \cup {[kind |-> "malformed", fields |-> NoFields],
                             [kind |-> "array", fields |-> NoFields]}

\* outcomes of requests.get(url, timeout=10)
HttpResponse(code) == [kind |-> "http", status_code |-> code, text |-> <<>>]
Responses ==
    {HttpResponse(code) : code \in {200, 404, 500, 503}}
    \cup {[kind |-> "timeout", status_code |-> 0, text |-> <<>>],
          [kind |-> "exception", status_code |-> 0, text |-> <<"Connection refused">>]}

\* the values get_download_stats can return
ScanReturns ==
    {ReturnTotal(t, m) : t \in 1..MaxScanTotal, m \in 1..MaxScanTotal}
    \cup {ReturnNoData, ReturnScanError(<<"OverflowError">>)}

\* data.get(key, default)
Get(body, key, default) ==
    CASE body.fields[key] = "absent" -> default
      [] body.fields[key] = "null"   -> NullV
      [] OTHER                       -> PresentValue(key)

\* str.replace(old, new) on a text
RECURSIVE Replace(_, _, _)
Replace(cs, old, new) ==
    IF cs = <<>> THEN <<>>
    ELSE <<IF Head(cs) = old THEN new ELSE Head(cs)>> \o Replace(Tail(cs), old, new)

\* lines 127-143
SuccessRecord(pkg, body, info) ==
    [package        |-> TextV(pkg),
     downloads      |-> info.downloads,
     download_source |-> StrV(info.data_source),
     download_note  |-> info.note,
     latest_version |-> Get(body, "latest_version", NA),
     total_versions |-> IntV(Get(body, "releases", ListV(0)).i),
     total_files    |-> IntV(Get(body, "files", ListV(0)).i),
     summary        |-> TextV(Replace(Get(body, "summary", StrV("")).a, ",", ";")),
     license        |-> Get(body, "license", NA),
     home_page      |-> Get(body, "home", NA),
     dev_url        |-> Get(body, "dev_url", NA),
     doc_url        |-> Get(body, "doc_url", NA),
     created_at     |-> Get(body, "created_at", NA),
     modified_at    |-> Get(body, "modified_at", NA),
     status         |-> StrV("success")]

\* lines 145-161
NotFoundRecord(pkg) ==
    [package        |-> TextV(pkg),
     downloads      |-> NA,
     download_source |-> StrV("none"),
     download_note  |-> StrV("Package not found"),
     latest_version |-> NA,
     total_versions |-> IntV(0),
     total_files    |-> IntV(0),
     summary        |-> StrV("Package not found"),
     license        |-> NA,
     home_page      |-> NA,
     dev_url        |-> NA,
     doc_url        |-> NA,
     created_at     |-> NA,
     modified_at    |-> NA,
     status         |-> StrV("not_found")]

\* a variant whose note does not carry the status code
HttpErrorRecordNoCode(pkg, code) ==
    [NotFoundRecord(pkg) EXCEPT !.download_note = StrV("HTTP error"),
                                !.summary = StrV("HTTP error"),
                                !.status = StrV("error")]

\* lines 163-179
HttpErrorRecord(pkg, code) ==
    [package        |-> TextV(pkg),
     downloads      |-> NA,
     download_source |-> StrV("none"),
     download_note  |-> FmtI("HTTP {response.status_code}", code),
     latest_version |-> NA,
     total_versions |-> IntV(0),
     total_files    |-> IntV(0),
     summary        |-> FmtI("HTTP {response.status_code}", code),
     license        |-> NA,
     home_page      |-> NA,
     dev_url        |-> NA,
     doc_url        |-> NA,
     created_at     |-> NA,
     modified_at    |-> NA,
     status         |-> StrV("error")]

\* a variant that leaves out one key
TimeoutRecordMissingKey(pkg) ==
    [k \in (DOMAIN NotFoundRecord(pkg)) \ {"dev_url"} |->
        IF k = "status" THEN StrV("timeout") ELSE NotFoundRecord(pkg)[k]]

\* lines 182-198
TimeoutRecord(pkg) ==
    [package        |-> TextV(pkg),
     downloads      |-> NA,
     download_source |-> StrV("none"),
     download_note  |-> StrV("Request timeout"),
     latest_version |-> NA,
     total_versions |-> IntV(0),
     total_files    |-> IntV(0),
     summary        |-> StrV("Request timeout"),
     license        |-> NA,
     home_page      |-> NA,
     dev_url        |-> NA,
     doc_url        |-> NA,
     created_at     |-> NA,
     modified_at    |-> NA,
     status         |-> StrV("timeout")]

\* lines 200-216
ExceptionRecord(pkg, e) ==
    [package        |-> TextV(pkg),
     downloads      |-> NA,
     download_source |-> StrV("none"),
     download_note  |-> FmtS("Error: {str(e)}", e),
     latest_version |-> NA,
     total_versions |-> IntV(0),
     total_files    |-> IntV(0),
     summary        |-> FmtS("Error: {str(e)}", e),
     license        |-> NA,
     home_page      |-> NA,
     dev_url        |-> NA,
     doc_url        |-> NA,
     created_at     |-> NA,
     modified_at    |-> NA,
     status         |-> StrV("error")]

\* the 200 branch, in evaluation order: response.json(), the two len(...),
\* get_download_stats, then the record; an exception at any point is caught
\* by "except Exception" and the scanner has run iff it was reached
OnSuccessResponse(pkg, body, info) ==
    IF body.kind = "malformed"
    THEN [rec |-> ExceptionRecord(pkg, <<"Expecting value">>), scans |-> 0]
    ELSE IF body.kind = "array"
    THEN [rec |-> ExceptionRecord(pkg, <<"'list' object has no attribute 'get'">>),
          scans |-> 0]
    ELSE IF Get(body, "releases", ListV(0)).t # "list"
            \/ Get(body, "files", ListV(0)).t # "list"
    THEN [rec |-> ExceptionRecord(pkg, <<"object of type 'NoneType' has no len()">>),
          scans |-> 0]
    ELSE IF Get(body, "summary", StrV("")).t # "str"
    THEN [rec |-> ExceptionRecord(pkg,
                    <<"'NoneType' object has no attribute 'replace'">>),
          scans |-> 1]
    ELSE [rec |-> SuccessRecord(pkg, body, info), scans |-> 1]

\* fetch_package_stats(pkg_name): resp is the outcome of requests.get, body
\* the body of the response, info what get_download_stats returns if called
FetchPackageStats(pkg, resp, body, info) ==
    CASE resp.kind = "timeout"   -> [rec |-> TimeoutRecord(pkg), scans |-> 0]
      [] resp.kind = "exception" -> [rec |-> ExceptionRecord(pkg, resp.text),
                                      scans |-> 0]
      [] OTHER ->
           IF resp.status_code = 200 THEN OnSuccessResponse(pkg, body, info)
           ELSE IF resp.status_code = 404
                THEN [rec |-> NotFoundRecord(pkg), scans |-> 0]
                ELSE [rec |-> HttpErrorRecord(pkg, resp.status_code), scans |-> 0]

InitFetch ==
    /\ pc = "fetch"
    /\ package_name \in PkgNames
    /\ response \in Responses
    /\ data \in Bodies
    /\ download_info \in ScanReturns
    /\ result = "none"
    /\ scan_calls = 0
    /\ now = Date(FirstYear, 1, 1)
    /\ file_urls = <<>>
    /\ idx = 0
    /\ total_downloads = 0
    /\ months_found = 0
    /\ attempted = <<>>
    /\ s3_sum = 0
    /\ s3_contrib = 0
    /\ some_readable = FALSE
    /\ some_unreadable = FALSE
    /\ IdleMain /\ IdleConda

Fetch ==
    /\ pc = "fetch"
    /\ LET out == FetchPackageStats(package_name, response, data, download_info)
       IN  /\ result' = out.rec
           /\ scan_calls' = scan_calls + out.scans
    /\ pc' = "fetched"
    /\ UNCHANGED <<package_name, scanVars, response, data, mainVars, condaVars>>

NextFetch == Fetch

SpecFetch == InitFetch /\ [][NextFetch]_vars

\* the keys of a PackageRecord
FieldSet == {"package", "downloads", "download_source", "download_note",
             "latest_version", "total_versions", "total_files", "summary",
             "license", "home_page", "dev_url", "doc_url", "created_at",
             "modified_at", "status"}

\* C1: whatever the package, the upstream outcome and the scan's outcome,
\* the returned record has the same set of keys.
C1_SameFieldSet ==
    pc = "fetched" => DOMAIN result = FieldSet

\* an exception raised in the 200 branch after the scan ran still gives
\* a full record
C1_Witness ==
    /\ pc = "fetched"
    /\ response = HttpResponse(200)
    /\ scan_calls = 1
    /\ result.status = StrV("error")
    /\ DOMAIN result = FieldSet

\* C2: a 200 response whose body was parsed always gives status "success"
\* with every field present and non-null.
C2_SuccessAllNonNull ==
    (pc = "fetched" /\ response = HttpResponse(200) /\ data.kind = "object") =>
        /\ result.status = StrV("success")
        /\ \A k \in FieldSet : k \in DOMAIN result /\ result[k].t # "null"

\* C3: a request that does not return HTTP 200 is classified without
\* calling the scanner: 404 -> not_found, other status -> error with the
\* status code in the note, timeout -> timeout, other exception -> error
\* with the exception text in the note; downloads is "N/A" and the
\* download source is "none" in all four cases.
C3_Non200Classified ==
    (pc = "fetched" /\ response # HttpResponse(200)) =>
        /\ scan_calls = 0
        /\ result.downloads = NA
        /\ result.download_source = StrV("none")
        /\ (response.kind = "http" /\ response.status_code = 404
              => result.status = StrV("not_found"))
        /\ (response.kind = "http" /\ response.status_code # 404
              => /\ result.status = StrV("error")
                 /\ result.download_note.i = response.status_code)
        /\ (response.kind = "timeout" => result.status = StrV("timeout"))
        /\ (response.kind = "exception"
              => /\ result.status = StrV("error")
                 /\ result.download_note.a = response.text)

C3_Witness ==
    /\ pc = "fetched"
    /\ response = HttpResponse(503)
    /\ result.status = StrV("error")
    /\ result.download_note.i = 503
    /\ scan_calls = 0

(***************************************************************************)
(* SpecRead: read_package_list                                             *)
(***************************************************************************)
MaxLineLen == 3       \* characters of one line (without the line terminator)
MaxLines   == 2       \* lines of the input file

Whitespace == {" ", "\t"}
LineChars  == {" ", "#", "a"}

Lines == UNION {[1..n -> LineChars] : n \in 0..MaxLineLen}
FileOf(ls) == [kind |-> "ok", lines |-> ls]
MissingFile == [kind |-> "missing", lines |-> <<>>]
UnreadableFile == [kind |-> "unreadable", lines |-> <<>>]
InputFiles ==
    {FileOf(ls) : ls \in UNION {[1..n -> Lines] : n \in 0..MaxLines}}
    \cup {MissingFile, UnreadableFile}

\* str.lstrip(), str.rstrip(), str.strip()
RECURSIVE LStrip(_)
LStrip(cs) ==
    IF cs # <<>> /\ Head(cs) \in Whitespace THEN LStrip(Tail(cs)) ELSE cs
RECURSIVE RStrip(_)
RStrip(cs) ==
    IF cs # <<>> /\ cs[Len(cs)] \in Whitespace
    THEN RStrip(SubSeq(cs, 1, Len(cs) - 1)) ELSE cs
Strip(cs) == RStrip(LStrip(cs))

\* line.startswith("#")
StartsWithHash(line) == line # <<>> /\ Head(line) = "#"

\* the filter of the list comprehension of line 98
KeepLine(line) == Strip(line) # <<>> /\ ~StartsWithHash(line)

\* [line.strip() for line in f if line.strip() and not line.startswith("#")]
RECURSIVE Comprehension(_)
Comprehension(ls) ==
    IF ls = <<>> THEN <<>>
    ELSE IF KeepLine(Head(ls))
         THEN <<Strip(Head(ls))>> \o Comprehension(Tail(ls))
         ELSE Comprehension(Tail(ls))

\* read_package_list: the list, or sys.exit(1)
ReadPackageList(file) ==
    IF file.kind = "ok"
    THEN [exited |-> FALSE, code |-> 0, packages |-> Comprehension(file.lines)]
    ELSE [exited |-> TRUE, code |-> 1, packages |-> <<>>]

InitRead ==
    /\ pc = "read"
    /\ input_file \in InputFiles
    /\ packages = <<>>
    /\ i = 0
    /\ stats = <<>>
    /\ successful = 0
    /\ events = <<>>
    /\ csv = <<>>
    /\ exit_code = 0
    /\ status_counts = <<>>
    /\ package_name = <<"a">>
    /\ IdleScan /\ IdleFetch /\ IdleConda

ReadInput ==
    /\ pc = "read"
    /\ LET r == ReadPackageList(input_file)
       IN  /\ packages' = r.packages
           /\ exit_code' = r.code
           /\ pc' = IF r.exited THEN "exited" ELSE "loop"
    /\ UNCHANGED <<package_name, scanVars, fetchVars, input_file, i, stats,
                   successful, events, csv, status_counts, condaVars>>

NextRead == ReadInput

SpecRead == InitRead /\ [][NextRead]_vars

\* the lines the claim keeps: non-blank and, once stripped, not "#"-prefixed
IsPackageLine(line) == Strip(line) # <<>> /\ Head(Strip(line)) # "#"
RECURSIVE PackageLines(_)
PackageLines(ls) ==
    IF ls = <<>> THEN <<>>
    ELSE IF IsPackageLine(Head(ls))
         THEN <<Strip(Head(ls))>> \o PackageLines(Tail(ls))
         ELSE PackageLines(Tail(ls))

\* C10: the returned list is, in file order, the stripped content of exactly
\* the lines that are non-blank and not "#"-prefixed (a comment line with
\* leading whitespace before the "#" included), so no returned name is
\* empty or begins with "#".
C10_CommentsIgnored ==
    pc = "loop" =>
        /\ packages = PackageLines(input_file.lines)
        /\ \A k \in 1..Len(packages) :
              packages[k] # <<>> /\ Head(packages[k]) # "#"

(***************************************************************************)
(* SpecMain: main of bioconda_basic.py                                     *)
(***************************************************************************)
MaxPkgs == 3          \* lines of the input file of a whole run

MainLines == {<<"a">>, <<"b">>, <<"#", "a">>, <<>>}
MainFiles ==
    {FileOf(ls) : ls \in UNION {[1..n -> MainLines] : n \in 0..MaxPkgs}}
    \cup {MissingFile, UnreadableFile}

\* the upstream behaviours a run is explored with
FullBody == [kind |-> "object", fields |-> [k \in BodyKeys |-> "value"]]
MainBodies == {FullBody,
               [kind |-> "object",
                fields |-> [k \in BodyKeys |->
                              IF k = "summary" THEN "null" ELSE "value"]]}
MainScanReturns == {ReturnTotal(1, 1)}

Event(op, arg) == [op |-> op, arg |-> arg]

\* a variant that also sleeps after the last fetch
ShouldSleepAlways(position, n) == position <= n

\* "if i < len(packages)" of line 240
ShouldSleep(position, n) == position < n

\* pd.DataFrame(stats).columns
Columns(records) == UNION {DOMAIN records[k] : k \in 1..Len(records)}

\* df['status'].value_counts(), as status -> frequency
ValueCounts(records) ==
    [st \in {records[k].status : k \in 1..Len(records)} |->
        Cardinality({k \in 1..Len(records) : records[k].status = st})]

InitMain ==
    /\ pc = "read"
    /\ input_file \in MainFiles
    /\ packages = <<>>
    /\ i = 0
    /\ stats = <<>>
    /\ successful = 0
    /\ events = <<>>
    /\ csv = <<>>
    /\ exit_code = 0
    /\ status_counts = <<>>
    /\ package_name = <<"a">>
    /\ IdleScan /\ IdleFetch /\ IdleConda

\* one iteration of the for loop of lines 229-241
LoopIteration ==
    /\ pc = "loop"
    /\ i < Len(packages)
    /\ \E resp \in Responses, body \in MainBodies, info \in MainScanReturns :
         LET pkg == packages[i + 1]
             res == FetchPackageStats(pkg, resp, body, info).rec
         IN  /\ stats' = Append(stats, res)
             /\ successful' = IF res.status = StrV("success")
                              THEN successful + 1 ELSE successful
             /\ events' = events \o <<Event("fetch", pkg)>>
                            \o (IF ShouldSleep(i + 1, Len(packages))
                                THEN <<Event("sleep", <<>>)>> ELSE <<>>)
    /\ i' = i + 1
    /\ UNCHANGED <<pc, package_name, scanVars, fetchVars, input_file, packages,
                   csv, exit_code, status_counts, condaVars>>

\* lines 244-255: build the data frame, write it, print the summary and the
\* status breakdown; df['status'] raises KeyError when there is no such column
WriteAndReport ==
    /\ pc = "loop"
    /\ i >= Len(packages)
    /\ csv' = Append(csv, stats)
    /\ events' = Append(events, Event("write", <<>>))
    /\ IF "status" \in Columns(stats)
       THEN /\ status_counts' = ValueCounts(stats)
            /\ pc' = "main_done"
            /\ UNCHANGED exit_code
       ELSE /\ pc' = "crashed"
            /\ exit_code' = 1
            /\ UNCHANGED status_counts
    /\ UNCHANGED <<package_name, scanVars, fetchVars, input_file, packages, i,
                   stats, successful, condaVars>>

NextMain == ReadInput \/ LoopIteration \/ WriteAndReport

SpecMain == InitMain /\ [][NextMain]_vars

Terminated == pc \in {"exited", "main_done", "crashed"}

\* C4: no failure propagates as an unhandled fault except a missing or
\* unreadable input file (exit status 1): for every readable input file,
\* also one with no package name, main ends having written the CSV and
\* printed the status breakdown.
C4_NoUnhandledFault ==
    /\ pc # "crashed"
    /\ (Terminated /\ input_file.kind = "ok")
          => (pc = "main_done" /\ Len(csv) = 1)
    /\ (Terminated /\ input_file.kind # "ok")
          => (pc = "exited" /\ exit_code = 1 /\ csv = <<>>)

\* the trace of a run over a list of packages
RECURSIVE FetchesWithDelays(_)
FetchesWithDelays(pkgs) ==
    IF pkgs = <<>> THEN <<>>
    ELSE IF Len(pkgs) = 1 THEN <<Event("fetch", pkgs[1])>>
    ELSE <<Event("fetch", pkgs[1]), Event("sleep", <<>>)>>
           \o FetchesWithDelays(Tail(pkgs))

NumberOf(op) == Cardinality({k \in 1..Len(events) : events[k].op = op})

\* C9: one fetch per list entry in list order with its record appended in
\* that order, a delay between every two consecutive fetches and none after
\* the last (N-1 delays for N >= 1), and the output file written exactly
\* once, after the last fetch, with one row per list entry.
C9_Sequencing ==
    /\ pc = "loop" =>
          /\ csv = <<>>
          /\ NumberOf("write") = 0
          /\ Len(stats) = i
    /\ pc \in {"main_done", "crashed"} =>
          /\ events = FetchesWithDelays(packages) \o <<Event("write", <<>>)>>
          /\ Len(packages) >= 1 => NumberOf("sleep") = Len(packages) - 1
          /\ Len(csv) = 1
          /\ Len(csv[1]) = Len(packages)
          /\ \A k \in 1..Len(packages) : csv[1][k].package = TextV(packages[k])

C9_Witness ==
    /\ pc = "main_done"
    /\ Len(packages) = 3
    /\ NumberOf("sleep") = 2
    /\ NumberOf("fetch") = 3
    /\ packages[1] # packages[2]
    /\ Len(csv) = 1

(***************************************************************************)
(* SpecConda: get_conda_stats of bioconda_compare.py                       *)
(***************************************************************************)
MaxOut == 4           \* characters of the captured standard output

Digits == <<"0", "1", "2", "3", "4", "5", "6", "7", "8", "9">>
IsDigit(c) == \E d \in 1..10 : Digits[d] = c
DigitValue(c) == (CHOOSE d \in 1..10 : Digits[d] = c) - 1

OutChars == {"s", "x", " ", "0", "7"}
Seqfu == <<"s", "e", "q", "f", "u">>
CondaPkgs == {<<"s">>, <<"x", "s">>, Seqfu}
Outputs ==
    UNION {[1..n -> OutChars] : n \in 0..MaxOut}
    \cup {Seqfu \o <<" ", "1", "2", "3", "4", "5">>,
          <<"p", "k", "g", " ">> \o Seqfu \o <<"\t", " ", "4", "2", "\n">>}

\* outcomes of subprocess.run(cmd, capture_output=True, text=True, check=True)
Procs ==
    {[kind |-> "exit0", stdout |-> out] : out \in Outputs}
    \cup {[kind |-> "nonzero", stdout |-> out] :
            out \in {<<>>, <<"s", " ", "7">>}}
    \cup {[kind |-> "cannot_run", stdout |-> <<>>]}

\* int(text) of a run of decimal digits
RECURSIVE ParseInt(_)
ParseInt(cs) ==
    IF cs = <<>> THEN 0
    ELSE ParseInt(SubSeq(cs, 1, Len(cs) - 1)) * 10 + DigitValue(cs[Len(cs)])

IsSpace(c) == c \in Whitespace \cup {"\n"}

\* the length of the longest run of whitespace / of digits starting at from
RECURSIVE SpaceRun(_, _)
SpaceRun(out, from) ==
    IF from <= Len(out) /\ IsSpace(out[from])
    THEN 1 + SpaceRun(out, from + 1) ELSE 0
RECURSIVE DigitRun(_, _)
DigitRun(out, from) ==
    IF from <= Len(out) /\ IsDigit(out[from])
    THEN 1 + DigitRun(out, from + 1) ELSE 0

\* the pattern  re.escape(package_name)\s+(\d+)  tried at position p:
\* group(1), or <<>> when the pattern does not match there
MatchAt(out, name, p) ==
    LET n  == Len(name)
        ws == SpaceRun(out, p + n)
        ds == DigitRun(out, p + n + ws)
    IN  IF /\ p + n - 1 <= Len(out)
           /\ SubSeq(out, p, p + n - 1) = name
           /\ ws >= 1
           /\ ds >= 1
        THEN SubSeq(out, p + n + ws, p + n + ws + ds - 1)
        ELSE <<>>

\* re.search: the match at the leftmost position that has one
RECURSIVE SearchFrom(_, _, _)
SearchFrom(out, name, p) ==
    IF p > Len(out) THEN <<>>
    ELSE IF MatchAt(out, name, p) # <<>> THEN MatchAt(out, name, p)
    ELSE SearchFrom(out, name, p + 1)

Search(out, name) == SearchFrom(out, name, 1)

\* result.stdout.strip()
RECURSIVE LStripOutput(_)
LStripOutput(cs) ==
    IF cs # <<>> /\ IsSpace(Head(cs)) THEN LStripOutput(Tail(cs)) ELSE cs
RECURSIVE RStripOutput(_)
RStripOutput(cs) ==
    IF cs # <<>> /\ IsSpace(cs[Len(cs)])
    THEN RStripOutput(SubSeq(cs, 1, Len(cs) - 1)) ELSE cs
StripOutput(out) == RStripOutput(LStripOutput(out))

\* a variant that does not look at the exit status (check=False)
GetCondaStatsUnchecked(name, p) ==
    IF p.kind = "cannot_run"
    THEN [ret |-> 0, err |-> <<"Unexpected error for {package_name}: {e}">>]
    ELSE IF Search(StripOutput(p.stdout), name) # <<>>
         THEN [ret |-> ParseInt(Search(StripOutput(p.stdout), name)), err |-> <<>>]
         ELSE [ret |-> 0,
               err |-> <<"Warning: Could not parse output for {package_name}",
                         "Output was: {output}">>]

\* get_conda_stats: the returned integer and the lines written to stderr
GetCondaStats(name, p) ==
    CASE p.kind = "nonzero" ->
           [ret |-> 0, err |-> <<"Error running condastats for {package_name}: {e}">>]
      [] p.kind = "cannot_run" ->
           [ret |-> 0, err |-> <<"Unexpected error for {package_name}: {e}">>]
      [] OTHER ->
           LET output == StripOutput(p.stdout)
               group1 == Search(output, name)
           IN  IF group1 # <<>>
               THEN [ret |-> ParseInt(group1), err |-> <<>>]
               ELSE [ret |-> 0,
                     err |-> <<"Warning: Could not parse output for {package_name}",
                               "Output was: {output}">>]

InitConda ==
    /\ pc = "conda"
    /\ package_name \in CondaPkgs
    /\ proc \in Procs
    /\ conda_ret = 0
    /\ stderr = <<>>
    /\ IdleScan /\ IdleFetch /\ IdleMain

CondaStats ==
    /\ pc = "conda"
    /\ LET r == GetCondaStats(package_name, proc)
       IN  /\ conda_ret' = r.ret
           /\ stderr' = stderr \o r.err
    /\ pc' = "conda_done"
    /\ UNCHANGED <<package_name, scanVars, fetchVars, mainVars, proc>>

NextConda == CondaStats

SpecConda == InitConda /\ [][NextConda]_vars

\* the integers written in out right after name and some whitespace
IntegersAfter(out, name) ==
    { ParseInt(SubSeq(out, d, e)) :
        <<d, e>> \in { de \in (1..Len(out)) \X (1..Len(out)) :
            /\ de[1] <= de[2]
            /\ \A k \in de[1]..de[2] : IsDigit(out[k])
            /\ (de[2] = Len(out) \/ ~IsDigit(out[de[2] + 1]))
            /\ \E b \in 1..(de[1] - 1) :
                  /\ b - Len(name) >= 1
                  /\ \A k \in b..(de[1] - 1) : IsSpace(out[k])
                  /\ SubSeq(out, b - Len(name), b - 1) = name } }

\* C8: get_conda_stats always returns an integer: with exit status zero and
\* an output holding the package name followed by whitespace and digits it
\* is that integer (12345 for "seqfu 12345" and "seqfu"); with a non-zero
\* exit status, a tool that cannot be run or no match, a warning goes to the
\* error stream and 0 is returned.
C8_CondaStats ==
    pc = "conda_done" =>
        /\ conda_ret \in Nat
        /\ IF proc.kind = "exit0" /\ IntegersAfter(proc.stdout, package_name) # {}
           THEN conda_ret \in IntegersAfter(proc.stdout, package_name)
           ELSE conda_ret = 0 /\ stderr # <<>>
        /\ (/\ proc.kind = "exit0"
            /\ package_name = Seqfu
            /\ proc.stdout = Seqfu \o <<" ", "1", "2", "3", "4", "5">>)
              => conda_ret = 12345

C8_Witness ==
    /\ pc = "conda_done"
    /\ proc.kind = "exit0"
    /\ package_name = <<"x", "s">>
    /\ proc.stdout = <<"x", "s", " ", "7">>
    /\ conda_ret = 7
    /\ stderr = <<>>
====
